---- MODULE Spec2Model ----
(***************************************************************************)
(* Legal-rag-agent: the retrieval store adapter (tools/vector_store.py),   *)
(* the chunker (tools/chunking_tool.py), the extractor adapter             *)
(* (tools/pdf_extractor.py), the orchestrator (agent.py) and the request   *)
(* handlers of the HTTP boundary (main.py).                                *)
(*                                                                         *)
(* Every method returns a dict; a dict is a record here.  Strings built    *)
(* with f-strings are sequences of their pieces, so that a prefix or an    *)
(* id can be taken apart again.  The external collaborators (PDF reader,   *)
(* text splitter, Chroma index, Gemini generator) are nondeterministic:    *)
(* an operation is an operator giving the SET of outcomes it can have,     *)
(* one per answer of the collaborators, and an action picks one.           *)
(***************************************************************************)
EXTENDS Integers, Sequences, FiniteSets, TLC

\* The keys of the dicts and records of this module, each with its rank.  TLC
\* keeps the fields of a record in the order in which their names first occur
\* in the module; naming them here in the order the constructors below write
\* them lets every record be stored as it is written.
KeyOrder ==
  [result |-> 1, entries |-> 2, none |-> 3, success |-> 4, error |-> 5,
   path |-> 6, dir |-> 7, base |-> 8, ext |-> 9, of |-> 10, part |-> 11,
   file |-> 12, exists |-> 13, readable |-> 14, pages |-> 15,
   filename |-> 16, num_pages |-> 17, chunks |-> 18, id |-> 19, text |-> 20,
   chunk_index |-> 21, total_chunks |-> 22, source |-> 23, page |-> 24,
   char_count |-> 25, word_count |-> 26, statistics |-> 27,
   avg_chunk_size |-> 28, total_characters |-> 29, total_words |-> 30,
   page_number |-> 31, global_chunk_id |-> 32, document |-> 33,
   metadata |-> 34, fn |-> 35, arg |-> 36, raised |-> 37,
   collection_id |-> 38, vector_store |-> 39, current_document |-> 40,
   ids |-> 41, chunks_added |-> 42, distances |-> 43, distance |-> 44,
   query |-> 45, results |-> 46, calls |-> 47, searched |-> 48, count |-> 49,
   message |-> 50, collection_name |-> 51, collection |-> 52,
   total_documents |-> 53, document_info |-> 54, num_chunks |-> 55,
   chunk_size |-> 56, gave |-> 57, context |-> 58, question |-> 59,
   top_k |-> 60, answer |-> 61, sources |-> 62, num_sources |-> 63,
   clauses |-> 64, storage_path |-> 65, status_code |-> 66, body |-> 67,
   len |-> 68, chars |-> 69, words |-> 70, detail |-> 71, at |-> 72,
   request |-> 73, name |-> 74, args |-> 75]

VARIABLES
  entries,           \* the Chroma collection's records: id -> [document, metadata]
  collection_id,     \* identity of the collection in the database, 0 when it does not exist
  vector_store,      \* LegalRAGAgent.vector_store: [collection_name, collection (id the handle is bound to)]
  current_document,  \* LegalRAGAgent.current_document
  op,                \* the last public call and its arguments
  result,            \* the dict that call returned
  calls,             \* the calls that call made to stages and collaborators, in order
  searched,          \* ask_question's local search_result in that call (None when it is none)
  before,            \* entries, collection_id, vector_store and current_document when that call began
  pc                 \* the request handler that has begun and not yet answered: [at, request], at "idle" when there is none

vars == <<entries, collection_id, vector_store, current_document, op, result, calls, searched, before, pc>>

----------------------------------------------------------------------------
(* Bounds of the model *)

\* largest top_k a caller of ask_question passes (0 is passed too)
MaxTopK == 2

\* the chunker is given texts whose length is within this distance of 0 and
\* of each document-size limit
LengthWindow == 3

----------------------------------------------------------------------------
(* Values *)

None == [none |-> TRUE]

\* str(e) of an exception raised by a collaborator
Exc == "<exception>"

CollectionName == "legal_documents"

Min(a, b) == IF a <= b THEN a ELSE b

RECURSIVE SumLen(_)
SumLen(ps) == IF ps = <<>> THEN 0 ELSE Head(ps).len + SumLen(Tail(ps))

RECURSIVE SumWords(_)
SumWords(ps) == IF ps = <<>> THEN 0 ELSE Head(ps).words + SumWords(Tail(ps))

\* A text is [body, len, words]: what it says, len(text) and len(text.split()).
\* `not text or len(text.strip()) == 0`: empty, or nothing but whitespace.
IsBlankText(text) == text.len = 0 \/ text.words = 0

\* A query string is a sequence of pieces; the piece " " is whitespace.
RECURSIVE LStrip(_)
LStrip(q) == IF q # <<>> /\ Head(q) = " " THEN LStrip(Tail(q)) ELSE q

RECURSIVE RStrip(_)
RStrip(q) == IF q # <<>> /\ q[Len(q)] = " " THEN RStrip(SubSeq(q, 1, Len(q) - 1)) ELSE q

Strip(q) == RStrip(LStrip(q))

\* `not query or len(query.strip()) == 0`
IsBlankQuery(q) == q = <<>> \/ Len(Strip(q)) = 0

Fail(error) == [success |-> FALSE, error |-> error]

Get(rec, key, default) == IF key \in DOMAIN rec THEN rec[key] ELSE default

----------------------------------------------------------------------------
(* tools/pdf_extractor.py *)

\* A path is [dir, base, ext]; str(path) and os.path.basename(path) in pieces.
PathStr(path) == <<path.dir, "/", path.base, path.ext>>

Basename(path) == <<path.base, path.ext>>

\* str.lower() of an extension
Lower(ext) == IF ext = ".PDF" THEN ".pdf" ELSE ext

\* A raw page is [body, chars, words]: chars non-blank characters in words
\* words.  " ".join(text.split()) leaves the words with one space between.
CleanPage(page) ==
  [body |-> page.body,
   len |-> IF page.words = 0 THEN 0 ELSE page.chars + page.words - 1,
   words |-> page.words]

RECURSIVE CleanPages(_)
CleanPages(pages) ==
  IF pages = <<>> THEN <<>> ELSE <<CleanPage(Head(pages))>> \o CleanPages(Tail(pages))

RECURSIVE Bodies(_)
Bodies(ps) == IF ps = <<>> THEN <<>> ELSE <<Head(ps).body>> \o Bodies(Tail(ps))

\* " ".join(all_text)
JoinPages(ps) ==
  [body |-> [of |-> Bodies(ps), part |-> 0],
   len |-> SumLen(ps) + (IF Len(ps) = 0 THEN 0 ELSE Len(ps) - 1),
   words |-> SumWords(ps)]

\* file is what is on disk at path: [exists, readable, pages]; readable is
\* FALSE when PdfReader or extract_text raises, pages are the raw pages.
extract_text_from_pdf(path, file) ==
  IF ~file.exists THEN Fail(<<"File not found: ">> \o PathStr(path))
  ELSE IF Lower(path.ext) # ".pdf" THEN Fail(<<"File must be a PDF (.pdf extension)">>)
  ELSE IF ~file.readable THEN Fail(<<"Error extracting PDF: ", Exc>>)
  ELSE LET combined_text == JoinPages(CleanPages(file.pages)) IN
       [success |-> TRUE,
        text |-> combined_text,
        metadata |-> [filename |-> Basename(path),
                      num_pages |-> Len(file.pages),
                      total_characters |-> combined_text.len,
                      total_words |-> combined_text.words]]

----------------------------------------------------------------------------
(* tools/chunking_tool.py *)

SmallDocLimit == 5000
MediumDocLimit == 20000
LargeDocLimit == 100000
SmallChunk == 500
MediumChunk == 1000
LargeChunk == 1500
VeryLargeChunk == 2000

\* A variant whose ranges end at their limits inclusive.
get_optimal_chunk_size_inclusive(text) ==
  IF text.len <= SmallDocLimit THEN SmallChunk
  ELSE IF text.len <= MediumDocLimit THEN MediumChunk
  ELSE IF text.len <= LargeDocLimit THEN LargeChunk
  ELSE VeryLargeChunk

get_optimal_chunk_size(text) ==
  IF text.len < SmallDocLimit THEN SmallChunk
  ELSE IF text.len < MediumDocLimit THEN MediumChunk
  ELSE IF text.len < LargeDocLimit THEN LargeChunk
  ELSE VeryLargeChunk

\* RecursiveCharacterTextSplitter.split_text, by its sizes: a text no longer
\* than chunk_size is one segment; a longer one is cut into segments of
\* chunk_size that each start chunk_overlap before the end of the last.
NumSegments(len, chunk_size, chunk_overlap) ==
  IF len <= chunk_size THEN 1
  ELSE 1 + ((len - chunk_size) + (chunk_size - chunk_overlap) - 1) \div (chunk_size - chunk_overlap)

SegmentLen(len, chunk_size, chunk_overlap, i) ==
  LET n == NumSegments(len, chunk_size, chunk_overlap) IN
  IF i < n THEN chunk_size ELSE len - (n - 1) * (chunk_size - chunk_overlap)

SplitText(text, chunk_size, chunk_overlap) ==
  [i \in 1..NumSegments(text.len, chunk_size, chunk_overlap) |->
     LET l == SegmentLen(text.len, chunk_size, chunk_overlap, i) IN
     [body |-> [of |-> text.body.of, part |-> i],
      len |-> l,
      words |-> IF (text.words * l) \div text.len = 0 THEN 1 ELSE (text.words * l) \div text.len]]

\* A variant that numbers the chunks as enumerate does, from 0.
chunk_text_from_zero(text, chunk_size, chunk_overlap, source_name) ==
  IF IsBlankText(text) THEN Fail(<<"Text is empty or None">>)
  ELSE LET chunks == SplitText(text, chunk_size, chunk_overlap) IN
       [success |-> TRUE,
        chunks |-> [i \in 1..Len(chunks) |->
                      [id |-> source_name \o <<"_chunk_", ToString(i - 1)>>,
                       text |-> chunks[i],
                       chunk_index |-> i - 1,
                       total_chunks |-> Len(chunks),
                       source |-> source_name,
                       char_count |-> chunks[i].len,
                       word_count |-> chunks[i].words]],
        statistics |-> [total_chunks |-> Len(chunks),
                        avg_chunk_size |-> SumLen(chunks) \div Len(chunks),
                        total_characters |-> text.len,
                        total_words |-> text.words]]

chunk_text(text, chunk_size, chunk_overlap, source_name) ==
  IF IsBlankText(text) THEN Fail(<<"Text is empty or None">>)
  ELSE LET chunks == SplitText(text, chunk_size, chunk_overlap) IN
       [success |-> TRUE,
        chunks |-> [i \in 1..Len(chunks) |->
                      [id |-> source_name \o <<"_chunk_", ToString(i)>>,
                       text |-> chunks[i],
                       chunk_index |-> i,
                       total_chunks |-> Len(chunks),
                       source |-> source_name,
                       char_count |-> chunks[i].len,
                       word_count |-> chunks[i].words]],
        statistics |-> [total_chunks |-> Len(chunks),
                        avg_chunk_size |-> SumLen(chunks) \div Len(chunks),
                        total_characters |-> text.len,
                        total_words |-> text.words]]

----------------------------------------------------------------------------
(* tools/vector_store.py *)

Range(f) == {f[i] : i \in DOMAIN f}

\* The handle self.collection is bound to a collection by its identity; once
\* that collection is deleted every call through the handle raises.
HandleLive == collection_id # 0 /\ vector_store.collection = collection_id

\* self.collection.count()
Count == Cardinality(DOMAIN entries)

Metadata(chunk) ==
  [chunk_index |-> Get(chunk, "chunk_index", 0),
   source |-> Get(chunk, "source", <<"unknown">>),
   char_count |-> Get(chunk, "char_count", 0),
   word_count |-> Get(chunk, "word_count", 0),
   page_number |-> Get(chunk, "page_number", 0)]

\* chunk.get("id") or chunk.get("global_chunk_id") or f"chunk_{len(ids)}";
\* n is len(ids), the number of chunks before this one.
ChunkId(chunk, n) ==
  IF Get(chunk, "id", <<>>) # <<>> THEN chunk.id
  ELSE IF Get(chunk, "global_chunk_id", <<>>) # <<>> THEN chunk.global_chunk_id
  ELSE <<"chunk_", ToString(n)>>

Ids(chunks) == [i \in 1..Len(chunks) |-> ChunkId(chunks[i], i - 1)]

\* Collection.add of a PersistentClient: a batch with a repeated id is
\* rejected; a record whose id is already stored is left as it is; the
\* others are inserted.
CollectionAdd(documents, metadatas, ids) ==
  [id \in DOMAIN entries \cup Range(ids) |->
     IF id \in DOMAIN entries THEN entries[id]
     ELSE LET i == CHOOSE j \in 1..Len(ids) : ids[j] = id IN
          [document |-> documents[i], metadata |-> metadatas[i]]]

\* The outcomes of add_chunks(chunks): [result, entries, calls].
add_chunks(chunks) ==
  IF chunks = <<>>
  THEN {[result |-> Fail(<<"No chunks provided">>), entries |-> entries, calls |-> <<>>]}
  ELSE LET documents == [i \in 1..Len(chunks) |-> chunks[i].text]
           metadatas == [i \in 1..Len(chunks) |-> Metadata(chunks[i])]
           ids == Ids(chunks)
           log == <<[fn |-> "collection.add", arg |-> ids]>>
           raised == [result |-> Fail(<<"Error adding chunks: ", Exc>>),
                      entries |-> entries, calls |-> log]
           stored == CollectionAdd(documents, metadatas, ids)
       IN  IF ~HandleLive \/ Cardinality(Range(ids)) # Len(ids)
           THEN {raised}
           ELSE {raised,
                 [result |-> [success |-> TRUE,
                              chunks_added |-> Len(chunks),
                              total_documents |-> Cardinality(DOMAIN stored)],
                  entries |-> stored,
                  calls |-> log \o <<[fn |-> "collection.count", arg |-> <<>>]>>]}

Injective(s) == \A i, j \in 1..Len(s) : s[i] = s[j] => i = j

\* Collection.query(query_texts=[query], n_results=n): the answers the index
\* can give.  It raises for n <= 0 and whenever the service fails; otherwise
\* it ranks at most n stored records (no more than it holds) by ascending
\* distance, the nearest first.  results['ids'][0] and
\* results['distances'][0] are ids and distances; documents and metadatas
\* are those of the ids.  A distance is given by its place in the order of
\* the distances: 0 for the nearest.
IndexQuery(n) ==
  {[raised |-> TRUE, ids |-> <<>>, distances |-> <<>>]}
  \cup
  IF n <= 0 THEN {}
  ELSE {[raised |-> FALSE, ids |-> ids, distances |-> [i \in 1..Len(ids) |-> i - 1]] :
          ids \in UNION {{s \in [1..m -> DOMAIN entries] : Injective(s)} :
                          m \in 0..Min(n, Count)}}

\* A variant that asks the index for top_k results whatever it holds.
NResultsUnclamped(top_k) == top_k

\* n_results=min(top_k, self.collection.count())
NResults(top_k) == Min(top_k, Count)

\* The loop of search over results['documents'][0].
FormatResults(answer) ==
  [i \in 1..Len(answer.ids) |->
     [id |-> answer.ids[i],
      text |-> entries[answer.ids[i]].document,
      metadata |-> entries[answer.ids[i]].metadata,
      distance |-> answer.distances[i]]]

CountCall == [fn |-> "collection.count", arg |-> <<>>]

\* A variant that looks at the count before it looks at the query.
searchCountFirst(query, top_k) ==
  IF ~HandleLive
  THEN {[result |-> Fail(<<"Error searching: ", Exc>>), calls |-> <<CountCall>>]}
  ELSE IF Count = 0
  THEN {[result |-> Fail(<<"No documents in vector store. Please add documents first.">>),
         calls |-> <<CountCall>>]}
  ELSE IF IsBlankQuery(query)
  THEN {[result |-> Fail(<<"Query is empty">>), calls |-> <<CountCall>>]}
  ELSE {[result |-> IF answer.raised THEN Fail(<<"Error searching: ", Exc>>)
                    ELSE [success |-> TRUE,
                          query |-> query,
                          results |-> FormatResults(answer),
                          count |-> Len(FormatResults(answer))],
         calls |-> <<CountCall, CountCall,
                     [fn |-> "collection.query", arg |-> <<query, NResults(top_k)>>]>>] :
          answer \in IndexQuery(NResults(top_k))}

\* The outcomes of search(query, top_k): [result, calls].
search(query, top_k) ==
  IF IsBlankQuery(query)
  THEN {[result |-> Fail(<<"Query is empty">>), calls |-> <<>>]}
  ELSE IF ~HandleLive
  THEN {[result |-> Fail(<<"Error searching: ", Exc>>), calls |-> <<CountCall>>]}
  ELSE IF Count = 0
  THEN {[result |-> Fail(<<"No documents in vector store. Please add documents first.">>),
         calls |-> <<CountCall>>]}
  ELSE {[result |-> IF answer.raised THEN Fail(<<"Error searching: ", Exc>>)
                    ELSE [success |-> TRUE,
                          query |-> query,
                          results |-> FormatResults(answer),
                          count |-> Len(FormatResults(answer))],
         calls |-> <<CountCall, CountCall,
                     [fn |-> "collection.query", arg |-> <<query, NResults(top_k)>>]>>] :
          answer \in IndexQuery(NResults(top_k))}

\* A variant that leaves the handle bound to a new, empty collection.
delete_collection_recreating ==
  LET raised == [result |-> Fail(<<"Error deleting collection: ", Exc>>),
                 entries |-> entries, collection_id |-> collection_id]
  IN  IF collection_id = 0 THEN {raised}
      ELSE {raised,
            [result |-> [success |-> TRUE,
                         message |-> <<"Collection '", vector_store.collection_name, "' deleted">>],
             entries |-> <<>>,
             collection_id |-> vector_store.collection]}

\* client.delete_collection(name): raises when no collection has the name or
\* the service fails.  Outcomes: [result, collection_id, entries].
delete_collection ==
  LET raised == [result |-> Fail(<<"Error deleting collection: ", Exc>>),
                 entries |-> entries, collection_id |-> collection_id]
  IN  IF collection_id = 0 THEN {raised}
      ELSE {raised,
            [result |-> [success |-> TRUE,
                         message |-> <<"Collection '", vector_store.collection_name, "' deleted">>],
             entries |-> <<>>,
             collection_id |-> 0]}

\* The identity Chroma gives a collection it creates.  Only one handle is
\* alive, so an identity that differs from the one it holds is a fresh one.
NewCollectionId == IF vector_store.collection = 1 THEN 2 ELSE 1

----------------------------------------------------------------------------
(* agent.py *)

\* chunk_overlap=200 in process_document
ChunkOverlap == 200

\* chunk["text"][:200] in ask_question
SourceTextLimit == 200

ClauseTopK == 2
SummaryTopK == 5

StageCall(fn, arg) == [fn |-> fn, arg |-> arg]

\* A variant that hands the extractor's error on as it is.
ExtractionFailedUnlabelled(error) == Fail(error)

ExtractionFailed(error) == Fail(<<"PDF extraction failed: ">> \o error)

ChunkingFailed(error) == Fail(<<"Chunking failed: ">> \o error)

StorageFailed(error) == Fail(<<"Vector storage failed: ">> \o error)

\* A variant that saves the document info before it looks at store_result.
AfterStoreEager(store, document_info, log) ==
  [result |-> IF ~store.result.success THEN StorageFailed(store.result.error)
              ELSE [success |-> TRUE,
                    message |-> <<"Document processed successfully!">>,
                    document_info |-> document_info],
   entries |-> store.entries,
   current_document |-> document_info,
   calls |-> log \o store.calls]

\* process_document from the return of add_chunks on: store is the outcome
\* of add_chunks and log the calls made so far.
AfterStore(store, document_info, log) ==
  IF ~store.result.success
  THEN [result |-> StorageFailed(store.result.error),
        entries |-> store.entries,
        current_document |-> current_document,
        calls |-> log \o store.calls]
  ELSE [result |-> [success |-> TRUE,
                    message |-> <<"Document processed successfully!">>,
                    document_info |-> document_info],
        entries |-> store.entries,
        current_document |-> document_info,
        calls |-> log \o store.calls]

\* The outcomes of process_document(path) with file on disk at path:
\* [result, entries, current_document, calls].
process_document(path, file) ==
  LET unchanged(res, log) ==
        [result |-> res, entries |-> entries,
         current_document |-> current_document, calls |-> log]
      extract_result == extract_text_from_pdf(path, file)
      text == extract_result.text
      metadata == extract_result.metadata
      optimal_size == get_optimal_chunk_size(text)
      chunk_result == chunk_text(text, optimal_size, ChunkOverlap, metadata.filename)
      chunks == chunk_result.chunks
      log1 == <<StageCall("extract_text_from_pdf", PathStr(path))>>
      log2 == log1 \o <<StageCall("chunk_text", <<optimal_size, ChunkOverlap>>)>>
      log3 == log2 \o <<StageCall("add_chunks", Ids(chunks))>>
      document_info == [filename |-> metadata.filename,
                        num_pages |-> metadata.num_pages,
                        total_words |-> metadata.total_words,
                        num_chunks |-> Len(chunks),
                        chunk_size |-> optimal_size]
  IN  IF ~extract_result.success
      THEN {unchanged(ExtractionFailed(extract_result.error), log1)}
      ELSE IF ~chunk_result.success
      THEN {unchanged(ChunkingFailed(chunk_result.error), log2)}
      ELSE {AfterStore(store, document_info, log3) : store \in add_chunks(chunks)}

\* response.content of self.llm.invoke(prompt): the text the generator wrote
\* for the prompt.
Answer(prompt) == <<"answer to ", prompt.question>>

\* The context string: one "[Source: S, Page: P]\n<text>" per chunk, in order.
Context(relevant_chunks) ==
  [i \in 1..Len(relevant_chunks) |->
     [text |-> relevant_chunks[i].text,
      source |-> Get(relevant_chunks[i].metadata, "source", <<"unknown">>),
      page |-> Get(relevant_chunks[i].metadata, "page_number", "N/A")]]

\* A variant that lists the sources last hit first.
SourcesReversed(relevant_chunks) ==
  [i \in 1..Len(relevant_chunks) |->
     LET chunk == relevant_chunks[Len(relevant_chunks) + 1 - i] IN
     [text |-> [body |-> chunk.text.body, len |-> Min(chunk.text.len, SourceTextLimit) + 3],
      source |-> Get(chunk.metadata, "source", <<"unknown">>),
      page |-> Get(chunk.metadata, "page_number", "N/A")]]

\* The sources list; text is chunk["text"][:200] + "...".
Sources(relevant_chunks) ==
  [i \in 1..Len(relevant_chunks) |->
     [text |-> [body |-> relevant_chunks[i].text.body,
                len |-> Min(relevant_chunks[i].text.len, SourceTextLimit) + 3],
      source |-> Get(relevant_chunks[i].metadata, "source", <<"unknown">>),
      page |-> Get(relevant_chunks[i].metadata, "page_number", "N/A")]]

\* A variant that invokes the generator a second time when it raised.
GenerateWithRetry(prompt) ==
  {<<[fn |-> "llm.invoke", arg |-> prompt, gave |-> Answer(prompt)]>>}
  \cup
  {<<[fn |-> "llm.invoke", arg |-> prompt, gave |-> <<Exc>>],
     [fn |-> "llm.invoke", arg |-> prompt, gave |-> a]>> : a \in {Answer(prompt), <<Exc>>}}

\* The calls ask_question makes to the generator for one prompt, each with
\* what it gave: the text of the answer, or <<Exc>> when it raised.
Generate(prompt) ==
  {<<[fn |-> "llm.invoke", arg |-> prompt, gave |-> a]>> : a \in {Answer(prompt), <<Exc>>}}

\* A variant without the check for an empty hit list.
NoHitsUnchecked(search_result) == FALSE

\* if search_result["count"] == 0
NoHits(search_result) == search_result.count = 0

\* The outcomes of ask_question(question, top_k): [result, calls, searched].
ask_question(question, top_k) ==
  UNION {
    LET search_result == found.result
        log == <<StageCall("vector_store.search", <<question, top_k>>)>> \o found.calls
        relevant_chunks == search_result.results
        prompt == [context |-> Context(relevant_chunks), question |-> question]
    IN  IF ~search_result.success
        THEN {[result |-> Fail(search_result.error), calls |-> log,
               searched |-> search_result]}
        ELSE IF NoHits(search_result)
        THEN {[result |-> Fail(<<"No relevant information found in the document.">>),
               calls |-> log, searched |-> search_result]}
        ELSE {[result |-> IF generated[Len(generated)].gave = <<Exc>>
                          THEN Fail(<<"Error answering question: ", Exc>>)
                          ELSE [success |-> TRUE,
                                question |-> question,
                                answer |-> generated[Len(generated)].gave,
                                sources |-> Sources(relevant_chunks),
                                num_sources |-> Len(Sources(relevant_chunks))],
               calls |-> log \o generated,
               searched |-> search_result] :
                generated \in Generate(prompt)} :
    found \in search(question, top_k)}

key_topics ==
  <<"payment terms", "termination clause", "confidentiality",
    "liability", "duration of contract", "dispute resolution">>

TopicQuestion(topic) == <<"What does the document say about ", topic, "?">>

\* A variant of the loop that ends at the first topic whose question failed.
RECURSIVE ClauseLoopEndsAtFailure(_)
ClauseLoopEndsAtFailure(topics) ==
  IF topics = <<>> THEN {[results |-> <<>>, calls |-> <<>>]}
  ELSE LET topic == Head(topics)
           asked == {[success |-> o.result.success,
                      answer |-> IF o.result.success THEN o.result.answer ELSE <<>>] :
                       o \in ask_question(TopicQuestion(topic), ClauseTopK)}
           later == ClauseLoopEndsAtFailure(Tail(topics))
           call(a) == <<[fn |-> "ask_question",
                         arg |-> <<TopicQuestion(topic), ClauseTopK>>,
                         gave |-> a.success]>>
       IN  {[results |-> <<>>, calls |-> call(a)] : a \in {b \in asked : ~b.success}}
           \cup
           {[results |-> (topic :> a.answer) @@ rest.results,
             calls |-> call(a) \o rest.calls] :
              a \in {b \in asked : b.success}, rest \in later}

\* The loop of extract_key_clauses over topics: the outcomes [results,
\* calls], results the dict and calls the ask_question calls with whether
\* each succeeded.
RECURSIVE ClauseLoop(_)
ClauseLoop(topics) ==
  IF topics = <<>> THEN {[results |-> <<>>, calls |-> <<>>]}
  ELSE LET topic == Head(topics)
           asked == {[success |-> o.result.success,
                      answer |-> IF o.result.success THEN o.result.answer ELSE <<>>] :
                       o \in ask_question(TopicQuestion(topic), ClauseTopK)}
           later == ClauseLoop(Tail(topics))
       IN  {[results |-> IF a.success THEN (topic :> a.answer) @@ rest.results
                         ELSE rest.results,
             calls |-> <<[fn |-> "ask_question",
                          arg |-> <<TopicQuestion(topic), ClauseTopK>>,
                          gave |-> a.success]>> \o rest.calls] :
              a \in asked, rest \in later}

\* The outcomes of extract_key_clauses(): [result, calls].
extract_key_clauses ==
  {[result |-> [success |-> TRUE, clauses |-> o.results], calls |-> o.calls] :
     o \in ClauseLoop(key_topics)}

SummaryQuestion ==
  <<"Provide a brief summary of this document covering the main points and purpose.">>

\* The outcomes of get_document_summary(): those of its one ask_question.
get_document_summary == ask_question(SummaryQuestion, SummaryTopK)

\* VectorStore(collection_name): get_or_create_collection binds the handle
\* to the collection of that name, creating an empty one when there is
\* none.  Outcomes: [raised, collection_id]; raised when a constructor
\* (embeddings, client, collection) raises.
VectorStoreInit(existing_id) ==
  {[raised |-> TRUE, collection_id |-> existing_id],
   [raised |-> FALSE,
    collection_id |-> IF existing_id = 0 THEN NewCollectionId ELSE existing_id]}

\* A variant that does not build a new VectorStore after the delete.
clear_database_keeps_store ==
  {[result |-> deleted.result,
    entries |-> deleted.entries,
    collection_id |-> deleted.collection_id,
    vector_store |-> vector_store,
    current_document |-> None,
    calls |-> <<StageCall("delete_collection", vector_store.collection_name)>>] :
     deleted \in delete_collection}

\* A variant that leaves current_document as it is.
clear_database_keeps_document ==
  UNION {
    {[result |-> IF init.raised THEN Fail(<<"Error clearing database: ", Exc>>)
                 ELSE deleted.result,
      entries |-> deleted.entries,
      collection_id |-> init.collection_id,
      vector_store |-> IF init.raised THEN vector_store
                       ELSE [collection_name |-> vector_store.collection_name,
                             collection |-> init.collection_id],
      current_document |-> current_document,
      calls |-> <<StageCall("delete_collection", vector_store.collection_name),
                  StageCall("VectorStore", vector_store.collection_name)>>] :
       init \in VectorStoreInit(deleted.collection_id)} :
    deleted \in delete_collection}

\* The outcomes of clear_database():
\* [result, entries, collection_id, vector_store, current_document, calls].
clear_database ==
  UNION {
    {[result |-> IF init.raised THEN Fail(<<"Error clearing database: ", Exc>>)
                 ELSE deleted.result,
      entries |-> deleted.entries,
      collection_id |-> init.collection_id,
      vector_store |-> IF init.raised THEN vector_store
                       ELSE [collection_name |-> vector_store.collection_name,
                             collection |-> init.collection_id],
      current_document |-> None,
      calls |-> <<StageCall("delete_collection", vector_store.collection_name),
                  StageCall("VectorStore", vector_store.collection_name)>>] :
       init \in VectorStoreInit(deleted.collection_id)} :
    deleted \in delete_collection}

----------------------------------------------------------------------------
(* tools/vector_store.py get_stats, and main.py *)

\* get_stats(): the failure dict, which has no total_documents, when
\* collection.count() raises.
get_stats ==
  IF HandleLive
  THEN [success |-> TRUE,
        collection_name |-> vector_store.collection_name,
        total_documents |-> Count,
        storage_path |-> "./chroma_db"]
  ELSE Fail(<<"Error getting stats: ", Exc>>)

HTTPException(status_code, detail) == [status_code |-> status_code, detail |-> detail]

\* What FastAPI answers when a handler returns body.
Returned(body) == [status_code |-> 200, body |-> body]

\* A variant of the handler that does not look at the stored count.
NoDocumentsUnchecked == FALSE

\* if stats.get("total_documents", 0) == 0
NoDocuments == Get(get_stats, "total_documents", 0) = 0

NoDocumentsUploaded ==
  HTTPException(400, <<"No documents uploaded. Please upload a PDF first.">>)

\* The ask-question handler from result = agent.ask_question(...) on: the
\* response to each outcome of the orchestrator's call.
AskQuestionResponse(o) ==
  IF ~o.result.success
  THEN HTTPException(500, o.result.error)
  ELSE Returned([success |-> TRUE,
                 question |-> o.result.question,
                 answer |-> o.result.answer,
                 sources |-> o.result.sources,
                 num_sources |-> o.result.num_sources])

\* The clear-database handler: the response to each outcome of the
\* orchestrator's clear_database.
ClearDatabaseResponse(o) ==
  IF ~o.result.success
  THEN HTTPException(500, o.result.error)
  ELSE Returned([success |-> TRUE, message |-> <<"Database cleared successfully!">>])

NoHandler == [at |-> "idle", request |-> None]

\* A variant in which handlers run on worker threads, one beside another.
WorkerThreads == TRUE

\* The handlers are coroutines (async def) that never await: the event loop
\* runs one from its first line to its response before it starts another.
Idle == pc.at = "idle"

----------------------------------------------------------------------------
(* The inputs of the public calls *)

Page(body, chars, words) == [body |-> body, chars |-> chars, words |-> words]

OnDisk(pages) == [exists |-> TRUE, readable |-> TRUE, pages |-> pages]

PathOf(base, ext) == [dir |-> "documents", base |-> base, ext |-> ext]

\* What process_document is called with: a path and the file found there.
Uploads ==
  {[path |-> PathOf("lease", ".pdf"),
    file |-> [exists |-> FALSE, readable |-> FALSE, pages |-> <<>>]],
   [path |-> PathOf("notes", ".txt"), file |-> OnDisk(<<Page("notes", 40, 8)>>)],
   [path |-> PathOf("lease", ".PDF"),
    file |-> [exists |-> TRUE, readable |-> FALSE, pages |-> <<>>]],
   [path |-> PathOf("lease", ".pdf"), file |-> OnDisk(<<Page("", 0, 0), Page("", 0, 0)>>)],
   [path |-> PathOf("lease", ".pdf"), file |-> OnDisk(<<Page("lease v1", 250, 50)>>)],
   [path |-> PathOf("lease", ".pdf"),
    file |-> OnDisk(<<Page("lease v2 p1", 300, 60), Page("lease v2 p2", 280, 55)>>)]}

\* A chunk as chunk_by_pages stamps it.
PageChunk ==
  [id |-> <<"page_", "2", "_chunk_", "1">>,
   text |-> [body |-> [of |-> <<"page 2">>, part |-> 1], len |-> 120, words |-> 20],
   chunk_index |-> 1,
   total_chunks |-> 1,
   source |-> <<"page_", "2">>,
   char_count |-> 120,
   word_count |-> 20,
   page_number |-> 2,
   global_chunk_id |-> <<"chunk_", "1">>]

\* What add_chunks is called with directly.
Batches == {<<>>, <<PageChunk>>, <<PageChunk, PageChunk>>}

Questions == {<<>>, <<" ">>, <<" ", "notice period?">>}

TopKs == 0..MaxTopK

\* The texts the chunker is called with: of every length near a limit, made
\* of words or of whitespace alone.
TextLengths ==
  {l \in {limit + d : limit \in {0, SmallDocLimit, MediumDocLimit, LargeDocLimit},
                      d \in -LengthWindow..LengthWindow} : l >= 0}

Texts ==
  {[body |-> [of |-> <<kind>>, part |-> 0],
    len |-> l,
    words |-> IF kind = "whitespace" THEN 0 ELSE (l + 5) \div 6] :
     kind \in {"lease", "whitespace"}, l \in TextLengths}

ChunkSizes == {LargeChunk, VeryLargeChunk}

SourceNames == {<<"document">>, <<"lease", ".pdf">>}

----------------------------------------------------------------------------
(* The state machine: one orchestrator, its calls made one after another *)

Init ==
  /\ entries = <<>>
  /\ collection_id = 1
  /\ vector_store = [collection_name |-> CollectionName, collection |-> 1]
  /\ current_document = None
  /\ op = [name |-> "__init__", args |-> <<>>]
  /\ result = None
  /\ calls = <<>>
  /\ searched = None
  /\ before = [entries |-> <<>>, collection_id |-> 1,
               vector_store |-> [collection_name |-> CollectionName, collection |-> 1],
               current_document |-> None]
  /\ pc = NoHandler

\* The state a call begins in.
Snapshot ==
  [entries |-> entries, collection_id |-> collection_id,
   vector_store |-> vector_store, current_document |-> current_document]

ProcessDocument ==
  \E u \in Uploads : \E o \in process_document(u.path, u.file) :
    /\ Idle
    /\ before' = Snapshot
    /\ pc' = pc
    /\ op' = [name |-> "process_document", args |-> <<u>>]
    /\ result' = o.result
    /\ entries' = o.entries
    /\ current_document' = o.current_document
    /\ calls' = o.calls
    /\ searched' = None
    /\ UNCHANGED <<collection_id, vector_store>>

AddChunks ==
  \E chunks \in Batches : \E o \in add_chunks(chunks) :
    /\ Idle
    /\ before' = Snapshot
    /\ pc' = pc
    /\ op' = [name |-> "add_chunks", args |-> <<chunks>>]
    /\ result' = o.result
    /\ entries' = o.entries
    /\ calls' = o.calls
    /\ searched' = None
    /\ UNCHANGED <<collection_id, vector_store, current_document>>

AskQuestion ==
  \E question \in Questions, top_k \in TopKs : \E o \in ask_question(question, top_k) :
    /\ Idle
    /\ before' = Snapshot
    /\ pc' = pc
    /\ op' = [name |-> "ask_question", args |-> <<question, top_k>>]
    /\ result' = o.result
    /\ calls' = o.calls
    /\ searched' = o.searched
    /\ UNCHANGED <<entries, collection_id, vector_store, current_document>>

ExtractKeyClauses ==
  \E o \in extract_key_clauses :
    /\ Idle
    /\ before' = Snapshot
    /\ pc' = pc
    /\ op' = [name |-> "extract_key_clauses", args |-> <<>>]
    /\ result' = o.result
    /\ calls' = o.calls
    /\ searched' = None
    /\ UNCHANGED <<entries, collection_id, vector_store, current_document>>

GetDocumentSummary ==
  \E o \in get_document_summary :
    /\ Idle
    /\ before' = Snapshot
    /\ pc' = pc
    /\ op' = [name |-> "get_document_summary", args |-> <<>>]
    /\ result' = o.result
    /\ calls' = o.calls
    /\ searched' = o.searched
    /\ UNCHANGED <<entries, collection_id, vector_store, current_document>>

ClearDatabase ==
  \E o \in clear_database :
    /\ Idle
    /\ before' = Snapshot
    /\ pc' = pc
    /\ op' = [name |-> "clear_database", args |-> <<>>]
    /\ result' = o.result
    /\ entries' = o.entries
    /\ collection_id' = o.collection_id
    /\ vector_store' = o.vector_store
    /\ current_document' = o.current_document
    /\ calls' = o.calls
    /\ searched' = None

\* POST /api/ask-question, up to the check of the stored count: answered
\* with 400 there, or on to the orchestrator's call.
AskQuestionRequest ==
  \E question \in Questions, top_k \in TopKs :
    /\ Idle
    /\ before' = Snapshot
    /\ op' = [name |-> "POST /api/ask-question", args |-> <<question, top_k>>]
    /\ calls' = <<StageCall("vector_store.get_stats", <<>>)>>
    /\ searched' = None
    /\ IF NoDocuments
       THEN result' = NoDocumentsUploaded /\ pc' = NoHandler
       ELSE /\ result' = None
            /\ pc' = [at |-> "ask_question",
                      request |-> [question |-> question, top_k |-> top_k]]
    /\ UNCHANGED <<entries, collection_id, vector_store, current_document>>

\* POST /api/ask-question, from the orchestrator's call to the response.
AskQuestionAnswer ==
  /\ pc.at = "ask_question"
  /\ \E o \in ask_question(pc.request.question, pc.request.top_k) :
       /\ result' = AskQuestionResponse(o)
       /\ calls' = <<StageCall("vector_store.get_stats", <<>>),
                     StageCall("agent.ask_question", <<pc.request.question, pc.request.top_k>>)>>
                   \o o.calls
       /\ searched' = o.searched
  /\ op' = [name |-> "POST /api/ask-question",
            args |-> <<pc.request.question, pc.request.top_k>>]
  /\ pc' = NoHandler
  /\ UNCHANGED <<entries, collection_id, vector_store, current_document, before>>

\* DELETE /api/clear-database
ClearDatabaseRequest ==
  \E o \in clear_database :
    /\ Idle
    /\ before' = Snapshot
    /\ pc' = pc
    /\ op' = [name |-> "DELETE /api/clear-database", args |-> <<>>]
    /\ result' = ClearDatabaseResponse(o)
    /\ entries' = o.entries
    /\ collection_id' = o.collection_id
    /\ vector_store' = o.vector_store
    /\ current_document' = o.current_document
    /\ calls' = <<StageCall("agent.clear_database", <<>>)>> \o o.calls
    /\ searched' = None

Next ==
  \/ ProcessDocument
  \/ AddChunks
  \/ AskQuestion
  \/ ExtractKeyClauses
  \/ GetDocumentSummary
  \/ ClearDatabase
  \/ AskQuestionRequest
  \/ AskQuestionAnswer
  \/ ClearDatabaseRequest

Spec == Init /\ [][Next]_vars

----------------------------------------------------------------------------
(* The adapter's delete_collection, called on its own *)

DeleteCollection ==
  \E o \in delete_collection :
    /\ Idle
    /\ before' = Snapshot
    /\ pc' = pc
    /\ op' = [name |-> "delete_collection", args |-> <<>>]
    /\ result' = o.result
    /\ entries' = o.entries
    /\ collection_id' = o.collection_id
    /\ calls' = <<StageCall("client.delete_collection", vector_store.collection_name)>>
    /\ searched' = None
    /\ UNCHANGED <<vector_store, current_document>>

AdapterNext ==
  \/ Next
  \/ DeleteCollection

AdapterSpec == Init /\ [][AdapterNext]_vars

----------------------------------------------------------------------------
(* The chunker's functions, called on their own *)

GetOptimalChunkSize ==
  \E text \in Texts :
    /\ before' = Snapshot
    /\ op' = [name |-> "get_optimal_chunk_size", args |-> <<text>>]
    /\ result' = get_optimal_chunk_size(text)
    /\ calls' = <<>>
    /\ searched' = None
    /\ UNCHANGED <<entries, collection_id, vector_store, current_document, pc>>

ChunkText ==
  \E text \in Texts, chunk_size \in ChunkSizes, source_name \in SourceNames :
    /\ before' = Snapshot
    /\ op' = [name |-> "chunk_text", args |-> <<text, chunk_size, ChunkOverlap, source_name>>]
    /\ result' = chunk_text(text, chunk_size, ChunkOverlap, source_name)
    /\ calls' = <<>>
    /\ searched' = None
    /\ UNCHANGED <<entries, collection_id, vector_store, current_document, pc>>

ChunkerNext ==
  \/ GetOptimalChunkSize
  \/ ChunkText

ChunkerSpec == Init /\ [][ChunkerNext]_vars

----------------------------------------------------------------------------
(* What the last call was *)

EmptyQuery == Fail(<<"Query is empty">>)

EmptyStore == Fail(<<"No documents in vector store. Please add documents first.">>)

NoRelevantInformation == Fail(<<"No relevant information found in the document.">>)

\* The last call was an ask_question, made directly or by get_document_summary.
IsAsk == op.name \in {"ask_question", "get_document_summary"}

AskedQuestion == IF op.name = "ask_question" THEN op.args[1] ELSE SummaryQuestion

AskedTopK == IF op.name = "ask_question" THEN op.args[2] ELSE SummaryTopK

CallsTo(fn) == SelectSeq(calls, LAMBDA c : c.fn = fn)

\* An upload whose extraction and chunking succeed.
Ingestible(u) ==
  /\ extract_text_from_pdf(u.path, u.file).success
  /\ ~IsBlankText(extract_text_from_pdf(u.path, u.file).text)

\* The chunks process_document passes to add_chunks for upload u.
ChunksOf(u) ==
  LET e == extract_text_from_pdf(u.path, u.file) IN
  chunk_text(e.text, get_optimal_chunk_size(e.text), ChunkOverlap, e.metadata.filename).chunks

\* The last call reached add_chunks, with these chunks.
Ingested ==
  \/ op.name = "add_chunks" /\ op.args[1] # <<>>
  \/ op.name = "process_document" /\ Len(CallsTo("add_chunks")) = 1

IngestedChunks == IF op.name = "add_chunks" THEN op.args[1] ELSE ChunksOf(op.args[1])

----------------------------------------------------------------------------
(* The claims *)

\* C1: once clear_database has returned success the collection holds no
\* entry and current_document is None; any ask_question with a non-blank
\* question made next fails with the empty-store error; and an ingest made
\* next through the same agent (process_document of a document that extracts
\* and chunks, or add_chunks of a batch) can succeed: the store handle it
\* goes through is bound to the new collection, so it fails only when the
\* index service itself raises.
C1_ClearLeavesEmptyUsableStore ==
  (op.name = "clear_database" /\ result.success) =>
    /\ entries = <<>>
    /\ Count = 0
    /\ current_document = None
    /\ \A q \in Questions, k \in TopKs :
         ~IsBlankQuery(q) => \A o \in ask_question(q, k) : o.result = EmptyStore
    /\ \A o \in get_document_summary : o.result = EmptyStore
    /\ \A u \in Uploads :
         Ingestible(u) =>
           \E o \in process_document(u.path, u.file) :
             o.result.success /\ DOMAIN o.entries = Range(Ids(ChunksOf(u)))
    /\ \E o \in add_chunks(<<PageChunk>>) : o.result.success /\ o.entries # <<>>

\* C1 witness: a successful clear_database of a loaded store.
C1_Witness ==
  /\ op.name = "clear_database"
  /\ result.success
  /\ before.entries # <<>>
  /\ before.current_document # None

\* C2: an ingest that succeeds with ids already in the store overwrites the
\* text and metadata of those entries with the passages', and when all its
\* ids were already stored the number of entries is unchanged.
C2_IngestUpserts ==
  (Ingested /\ result.success
     /\ Range(Ids(IngestedChunks)) \subseteq DOMAIN before.entries) =>
    /\ \A i \in 1..Len(IngestedChunks) :
         entries[Ids(IngestedChunks)[i]] =
           [document |-> IngestedChunks[i].text, metadata |-> Metadata(IngestedChunks[i])]
    /\ Cardinality(DOMAIN entries) = Cardinality(DOMAIN before.entries)

StageNames == {"extract_text_from_pdf", "chunk_text", "add_chunks"}

\* The stages process_document called, in the order it called them.
Stages == [i \in 1..Len(SelectSeq(calls, LAMBDA c : c.fn \in StageNames)) |->
             SelectSeq(calls, LAMBDA c : c.fn \in StageNames)[i].fn]

\* C3: process_document calls extract_text_from_pdf, chunk_text and
\* add_chunks in that order and no stage after one that failed; a failure
\* it returns is the failing stage's error behind that stage's label.
C3_StagesInOrderFirstFailureLabelled ==
  op.name = "process_document" =>
    LET u == op.args[1]
        e == extract_text_from_pdf(u.path, u.file)
        c == chunk_text(e.text, get_optimal_chunk_size(e.text), ChunkOverlap, e.metadata.filename)
    IN  IF ~e.success
        THEN /\ Stages = <<"extract_text_from_pdf">>
             /\ result = Fail(<<"PDF extraction failed: ">> \o e.error)
        ELSE IF ~c.success
        THEN /\ Stages = <<"extract_text_from_pdf", "chunk_text">>
             /\ result = Fail(<<"Chunking failed: ">> \o c.error)
        ELSE /\ Stages = <<"extract_text_from_pdf", "chunk_text", "add_chunks">>
             /\ \/ result.success
                \/ /\ result = Fail(<<"Vector storage failed: ", "Error adding chunks: ", Exc>>)
                   /\ \E o \in add_chunks(c.chunks) :
                        result.error = <<"Vector storage failed: ">> \o o.result.error

\* C3 witness: a process_document that failed at the first stage.
C3_Witness ==
  /\ op.name = "process_document"
  /\ ~result.success
  /\ Head(result.error) = "PDF extraction failed: "
  /\ Len(calls) = 1

\* C4: a process_document that returns a failure leaves entries and
\* current_document as they were when it began, and a process_document
\* that changed current_document returned success.
C4_ProcessDocumentAllOrNothing ==
  op.name = "process_document" =>
    /\ ~result.success =>
         entries = before.entries /\ current_document = before.current_document
    /\ current_document # before.current_document => result.success
    /\ result.success => current_document = result.document_info

\* C4 witness: a process_document that failed at the storage stage with a
\* document loaded.
C4_Witness ==
  /\ op.name = "process_document"
  /\ ~result.success
  /\ Head(result.error) = "Vector storage failed: "
  /\ before.current_document # None
  /\ before.entries # <<>>

\* C5: a search with a blank query fails with the empty-query error whatever
\* the store holds, without a call to the collection; a search with a
\* non-blank query on a collection whose count is 0 fails with the
\* empty-store error without a call to collection.query; neither changes
\* the entries.
C5_SearchPreconditionsInOrder ==
  IsAsk =>
    /\ IsBlankQuery(AskedQuestion) =>
         /\ searched = EmptyQuery
         /\ Len(CallsTo("collection.count")) = 0
         /\ Len(CallsTo("collection.query")) = 0
         /\ entries = before.entries
    /\ (~IsBlankQuery(AskedQuestion) /\ HandleLive /\ Count = 0) =>
         /\ searched = EmptyStore
         /\ Len(CallsTo("collection.query")) = 0
         /\ entries = before.entries

\* C5 witness: a blank query on an empty collection, which fails as a blank
\* query.
C5_Witness ==
  /\ IsAsk
  /\ IsBlankQuery(AskedQuestion)
  /\ AskedQuestion # <<>>
  /\ HandleLive
  /\ Count = 0
  /\ searched = EmptyQuery

\* C6 as the specification states it: a successful search with a non-blank
\* query on a collection of n > 0 entries returns min(top_k, n) results.
C6_ReturnsMinTopKCount ==
  (IsAsk /\ ~IsBlankQuery(AskedQuestion) /\ HandleLive /\ Count > 0 /\ searched.success) =>
    searched.count = Min(AskedTopK, Count)

\* C6 amended: a search with a non-blank query on a collection of n > 0
\* entries asks the index once, for min(top_k, n) results; when it succeeds
\* its count is the length of its results, which is at most min(top_k, n),
\* and the results are stored entries by ascending distance, as the index
\* gave them.
C6_RequestsMinReturnsIndexHits ==
  (IsAsk /\ ~IsBlankQuery(AskedQuestion) /\ HandleLive /\ Count > 0) =>
    /\ Len(CallsTo("collection.query")) = 1
    /\ CallsTo("collection.query")[1].arg = <<AskedQuestion, Min(AskedTopK, Count)>>
    /\ searched.success =>
         /\ searched.count = Len(searched.results)
         /\ searched.count <= Min(AskedTopK, Count)
         /\ \A i \in 1..Len(searched.results) :
              /\ searched.results[i].id \in DOMAIN entries
              /\ searched.results[i].text = entries[searched.results[i].id].document
              /\ searched.results[i].metadata = entries[searched.results[i].id].metadata
              /\ \A j \in 1..Len(searched.results) :
                   i < j => searched.results[i].distance <= searched.results[j].distance

\* C6 witness: a search with top_k above the count of a collection of
\* several entries that returned every entry.
C6_Witness ==
  /\ IsAsk
  /\ HandleLive
  /\ Count >= 2
  /\ AskedTopK > Count
  /\ searched.success
  /\ searched.count = Count

\* C7: when the search of an ask_question succeeds with no hit, ask_question
\* returns the failure "No relevant information found in the document.",
\* which is not the empty-store error, and does not invoke the generator.
C7_NoHitsIsNoRelevantInformation ==
  (IsAsk /\ searched.success /\ searched.count = 0) =>
    /\ result = NoRelevantInformation
    /\ result # EmptyStore
    /\ Len(CallsTo("llm.invoke")) = 0

\* C7 witness: a search of a collection that holds entries returned no hit.
C7_Witness ==
  /\ IsAsk
  /\ Count > 0
  /\ searched.success
  /\ searched.count = 0
  /\ result = NoRelevantInformation

\* The search of the last ask_question returned at least one passage.
Retrieved == IF searched.success THEN searched.count >= 1 ELSE FALSE

\* C8: an ask_question invokes the generator at most once: once when its
\* search returned at least one passage, never when the search failed or
\* returned no hit; when that one invocation raises, ask_question returns
\* the failure "Error answering question: ..." without a second invocation,
\* and when it answers, ask_question returns that answer.
C8_GeneratorInvokedAtMostOnce ==
  IsAsk =>
    LET invoked == CallsTo("llm.invoke") IN
    /\ Len(invoked) <= 1
    /\ Retrieved => Len(invoked) = 1
    /\ ~Retrieved => Len(invoked) = 0 /\ ~result.success
    /\ Len(invoked) = 1 =>
         IF invoked[1].gave = <<Exc>>
         THEN result = Fail(<<"Error answering question: ", Exc>>)
         ELSE result.success /\ result.answer = invoked[1].gave

\* C8 witness: the generator raised in an ask_question, which failed.
C8_Witness ==
  /\ IsAsk
  /\ Len(CallsTo("llm.invoke")) = 1
  /\ CallsTo("llm.invoke")[1].gave = <<Exc>>
  /\ ~result.success

\* C9: a successful ask_question returns as many sources as its search
\* returned results, num_sources is that number, and the i-th source has the
\* source name and page number of the i-th result, which is also the i-th
\* passage of the context given to the generator.
C9_SourcesFollowRanking ==
  (IsAsk /\ result.success) =>
    LET context == CallsTo("llm.invoke")[1].arg.context IN
    /\ Len(result.sources) = searched.count
    /\ result.num_sources = searched.count
    /\ Len(context) = searched.count
    /\ \A i \in 1..searched.count :
         /\ result.sources[i].source = searched.results[i].metadata.source
         /\ result.sources[i].page = searched.results[i].metadata.page_number
         /\ result.sources[i].text.body = searched.results[i].text.body
         /\ context[i].source = searched.results[i].metadata.source
         /\ context[i].page = searched.results[i].metadata.page_number
         /\ context[i].text = searched.results[i].text

\* C9 witness: an answer with two sources of different pages.
C9_Witness ==
  /\ IsAsk
  /\ result.success
  /\ result.num_sources = 2
  /\ result.sources[1].page # result.sources[2].page

\* The topics whose ask_question succeeded in the last extract_key_clauses.
Succeeded == {key_topics[i] : i \in {j \in 1..Len(calls) : calls[j].gave}}

\* C10: extract_key_clauses asks one question per topic of key_topics, in
\* the order of the list and with top_k 2, and returns success with the
\* clauses of exactly the topics whose question succeeded, each with the
\* answer to its question, however many of them failed.
C10_ClausesOfSucceededTopics ==
  op.name = "extract_key_clauses" =>
    /\ result.success
    /\ Len(key_topics) = 6
    /\ Len(calls) = Len(key_topics)
    /\ \A i \in 1..Len(calls) :
         /\ calls[i].fn = "ask_question"
         /\ calls[i].arg = <<TopicQuestion(key_topics[i]), 2>>
         /\ calls[i].gave =>
              \E o \in ask_question(TopicQuestion(key_topics[i]), 2) : o.result.success
    /\ DOMAIN result.clauses = Succeeded
    /\ \A t \in DOMAIN result.clauses :
         result.clauses[t] = Answer([question |-> TopicQuestion(t)])

\* C10 witness: an extract_key_clauses in which some questions succeeded and
\* some failed.
C10_Witness ==
  /\ op.name = "extract_key_clauses"
  /\ result.success
  /\ DOMAIN result.clauses # {}
  /\ DOMAIN result.clauses # Range(key_topics)

----------------------------------------------------------------------------
(* The HTTP boundary *)

\* The last request was an ask-question and it has been answered.
AskAnswered == op.name = "POST /api/ask-question" /\ pc.at = "idle"

\* The number of entries stored when the last call began.
StoredBefore == Cardinality(DOMAIN before.entries)

\* C11: an ask-question request made when the store holds no entry is
\* answered with status 400 and agent.ask_question is not called; one made
\* when the store holds entries calls agent.ask_question once, with the
\* request's question and top_k, and is answered with status 500 and the
\* orchestrator's error when that call failed, and with status 200 and the
\* call's answer, its sources in their order and their number when it
\* succeeded.
C11_AskBoundaryStatus ==
  /\ pc.at = "ask_question" => StoredBefore # 0
  /\ AskAnswered =>
       IF StoredBefore = 0
       THEN /\ result.status_code = 400
            /\ CallsTo("agent.ask_question") = <<>>
            /\ CallsTo("vector_store.search") = <<>>
       ELSE /\ Len(CallsTo("agent.ask_question")) = 1
            /\ CallsTo("agent.ask_question")[1].arg = op.args
            /\ \E o \in ask_question(op.args[1], op.args[2]) :
                 /\ searched = o.searched
                 /\ IF o.result.success
                    THEN /\ result.status_code = 200
                         /\ result.body.success
                         /\ result.body.question = op.args[1]
                         /\ result.body.answer = o.result.answer
                         /\ result.body.sources = Sources(searched.results)
                         /\ result.body.num_sources = Len(searched.results)
                    ELSE /\ result.status_code = 500
                         /\ result.detail = o.result.error

\* C11 witness: an ask-question request answered with status 200 and two
\* sources.
C11_Witness ==
  /\ AskAnswered
  /\ StoredBefore # 0
  /\ result.status_code = 200
  /\ result.body.num_sources = 2

----------------------------------------------------------------------------
(* The chunker *)

\* C12: get_optimal_chunk_size gives 500 for a text shorter than 5000
\* characters, 1000 from 5000 to 19999, 1500 from 20000 to 99999 and 2000
\* from 100000 on; the size is the same for every text of that length and
\* is no smaller than the size for any shorter text.
C12_ChunkSizeStepFunction ==
  op.name = "get_optimal_chunk_size" =>
    LET length == op.args[1].len IN
    /\ length < 5000 => result = 500
    /\ 5000 <= length /\ length < 20000 => result = 1000
    /\ 20000 <= length /\ length < 100000 => result = 1500
    /\ 100000 <= length => result = 2000
    /\ \A other \in Texts :
         /\ other.len = length => get_optimal_chunk_size(other) = result
         /\ other.len <= length => get_optimal_chunk_size(other) <= result

\* C12 witness: the size of a text of exactly 5000 characters, the first
\* length of the second range.
C12_Witness ==
  /\ op.name = "get_optimal_chunk_size"
  /\ op.args[1].len = 5000
  /\ result = 1000

\* C13: in a successful chunk_text of n segments the i-th chunk (from 1)
\* holds the i-th segment and has the id "{source_name}_chunk_{i}",
\* chunk_index i and total_chunks n; the ids are pairwise distinct and the
\* chunk_index values are exactly 1..n.
C13_ChunkIdsAndIndexes ==
  op.name = "chunk_text" /\ result.success =>
    LET source_name == op.args[4]
        segments == SplitText(op.args[1], op.args[2], op.args[3])
        n == Len(result.chunks)
    IN  /\ n = Len(segments)
        /\ n >= 1
        /\ \A i \in 1..n :
             /\ result.chunks[i].id = source_name \o <<"_chunk_", ToString(i)>>
             /\ result.chunks[i].chunk_index = i
             /\ result.chunks[i].total_chunks = n
             /\ result.chunks[i].text = segments[i]
        /\ \A i, j \in 1..n : result.chunks[i].id = result.chunks[j].id => i = j
        /\ {result.chunks[i].chunk_index : i \in 1..n} = 1..n

\* C13 witness: a chunk_text that gave more than two chunks.
C13_Witness ==
  /\ op.name = "chunk_text"
  /\ result.success
  /\ Len(result.chunks) > 2

----------------------------------------------------------------------------
(* Clearing *)

NonBlankQuestions == {q \in Questions : ~IsBlankQuery(q)}

\* C14 as the specification states it: the adapter recreates its handle
\* when it clears.  Once its delete_collection has returned success, the same
\* adapter's handle is bound to an empty collection of the same name, an
\* add_chunks of a batch on it can succeed, and a search on it fails with
\* the empty-store error and nothing else.
C14_AdapterClearRecreatesHandle ==
  op.name = "delete_collection" /\ result.success =>
    /\ HandleLive
    /\ Count = 0
    /\ vector_store.collection_name = before.vector_store.collection_name
    /\ \A chunks \in Batches \ {<<>>} : \E o \in add_chunks(chunks) : o.result.success
    /\ \A q \in NonBlankQuestions, top_k \in TopKs :
         \A o \in search(q, top_k) : o.result = EmptyStore

\* C14: the adapter's delete_collection only destroys the collection: once
\* it has returned success there is no collection, the adapter is the one it
\* was and its handle is bound to the collection that is gone, so every
\* add_chunks of a batch and every search of a non-blank query on it fails
\* with the error of the raised call.  It is clear_database that builds a
\* new adapter of the same name right after the delete: once it has
\* returned success the orchestrator's adapter is a new one, bound to a new
\* and empty collection.
C14_AdapterClearLeavesStaleHandle ==
  /\ op.name = "delete_collection" /\ result.success =>
       /\ collection_id = 0
       /\ entries = <<>>
       /\ vector_store = before.vector_store
       /\ ~HandleLive
       /\ \A chunks \in Batches \ {<<>>} :
            \A o \in add_chunks(chunks) : o.result = Fail(<<"Error adding chunks: ", Exc>>)
       /\ \A q \in NonBlankQuestions, top_k \in TopKs :
            \A o \in search(q, top_k) : o.result = Fail(<<"Error searching: ", Exc>>)
  /\ op.name = "clear_database" /\ result.success =>
       /\ calls = <<StageCall("delete_collection", CollectionName),
                    StageCall("VectorStore", CollectionName)>>
       /\ vector_store.collection_name = before.vector_store.collection_name
       /\ vector_store.collection # before.vector_store.collection
       /\ HandleLive
       /\ Count = 0

\* C14 witness: the adapter's delete_collection has destroyed a collection
\* that held entries.
C14_Witness ==
  /\ op.name = "delete_collection"
  /\ result.success
  /\ before.entries # <<>>

\* C15: a clear_database that returned a failure has left current_document,
\* the store handle and the stored entries as they were when it began, and
\* a clear_database has reset a current_document that was present only when
\* the collection it began with was destroyed.
C15_ClearAllOrNothing ==
  op.name = "clear_database" =>
    /\ ~result.success =>
         /\ current_document = before.current_document
         /\ vector_store = before.vector_store
         /\ entries = before.entries
    /\ before.current_document # None /\ current_document = None =>
         collection_id # before.collection_id

----------------------------------------------------------------------------
(* Requests one beside another *)

----------------------------------------------------------------------------
(* The current document *)

\* C17: whenever current_document is present the collection holds at least
\* one entry, behind a live handle, and current_document's num_chunks is at
\* least 1.
C17_CurrentDocumentIsStored ==
  current_document # None =>
    /\ HandleLive
    /\ Count >= 1
    /\ current_document.num_chunks >= 1

\* C17 witness: a process_document has succeeded on an orchestrator whose
\* earlier document a clear_database had reset.
C17_Witness ==
  /\ op.name = "process_document"
  /\ result.success
  /\ current_document # None
  /\ before.current_document = None
  /\ vector_store.collection = 2

====
